---- MODULE Spec2Model ----
(***************************************************************************)
(* Link simulator (link_sim.c, min_queue.c): the event loop that relays    *)
(* UDP datagrams between a learned client and a fixed destination, with    *)
(* loss, truncation, corruption and delay, and the min-queue that holds    *)
(* the delayed packets.                                                    *)
(***************************************************************************)
EXTENDS Integers, Sequences, FiniteSets, TLC

(***************************************************************************)
(* Program constants                                                       *)
(***************************************************************************)
MIN_PKT_LEN == 12
MAX_PKT_LEN == 528
LINK_FORWARD == 1
LINK_REVERSE == 2
LINK_BOTH_WAYS == 3
EXIT_SUCCESS == 0
EXIT_FAILURE == 1
forward_port == 12345
USEC_PER_SEC == 1000000
DELAY_CAP_MS == 10000
SLOTS_PER_MALLOC == 20
\* 2^32 mod 10000: an unsigned int that wrapped below zero is x + 2^32
UINT_WRAP_MOD_CAP == 7296

(***************************************************************************)
(* Bounds of the model                                                     *)
(***************************************************************************)
\* clock readings have tv_sec in 0..MaxSec
MaxSec == 1
\* the delayed-packet queue of the event loop holds at most MaxQueue slots
MaxQueue == 1
\* the queue driven directly through its interface holds at most MaxHeap
MaxHeap == 6
\* slots pushed beyond the first allocation of SLOTS_PER_MALLOC
MaxGrow == 1

\* values rand() returns (201 % 101 = 100, 201 % 3 = 0)
RandVals == {0, 50, 201}
\* lengths of received datagrams
PktLens == {MIN_PKT_LEN - 1, MIN_PKT_LEN, MIN_PKT_LEN + 1}
\* first byte of received datagrams (0x00, 0x20)
FirstBytes == {0, 32}

NullTime == [tv_sec |-> 0, tv_usec |-> 0]
\* readings of the monotonic clock: the whole seconds, and one reading 1 ms
\* before the first second ends
Clocks ==
    {[tv_sec |-> s, tv_usec |-> 0] : s \in 0..MaxSec} \cup
    {[tv_sec |-> 0, tv_usec |-> 999000]}

\* the addresses datagrams come from: (address, port)
dest_addr == <<"::1", forward_port>>
ZeroAddr == <<"::", 0>>
Addrs == {dest_addr, <<"::1", 5000>>, <<"::1", 5001>>}

\* a datagram's bytes: byte 0 is b0, byte 1 the sequence number, then i
Payload(b0, len) == [i \in 1..len |-> IF i = 1 THEN b0 ELSE i - 1]
Datagrams ==
    {dg \in [from : Addrs, len : PktLens, b0 : FirstBytes] :
        dg.len <= MIN_PKT_LEN => dg.b0 = 0}

\* the configurations explored (command-line options of main)
Config(d, j, e, c, l, dir) ==
    [delay |-> d, jitter |-> j, err_rate |-> e, cut_rate |-> c,
     loss_rate |-> l, link_direction |-> dir]
Configs ==
    { Config(0, 0, 0, 0, 0, LINK_FORWARD),
      Config(0, 0, 0, 0, 100, LINK_REVERSE),
      Config(0, 0, 50, 50, 50, LINK_BOTH_WAYS),
      Config(0, 0, 100, 100, 0, LINK_FORWARD),
      Config(500, 0, 0, 100, 0, LINK_BOTH_WAYS),
      Config(1, 3, 0, 0, 0, LINK_REVERSE) }

(***************************************************************************)
(* link_sim.c: helpers                                                     *)
(***************************************************************************)
\* SAME_DIRECTION written with | in place of &
SAME_DIRECTION_or(x, y) == IF x + y > 0 THEN 1 ELSE 0

\* x & y on the two direction bits
SAME_DIRECTION(x, y) ==
    ((x % 2) * (y % 2)) + 2 * (((x \div 2) % 2) * ((y \div 2) % 2))

\* rand() % 101 for the value rv returned by rand()
RAND_PERCENT(rv) == rv % 101

\* left > right, seconds first; the fields are compared as they are
timeval_cmp(left, right) ==
    IF left.tv_sec = right.tv_sec
    THEN left.tv_usec > right.tv_usec
    ELSE left.tv_sec > right.tv_sec

\* c = a - b; the borrow adds the microseconds only when --tv_sec is not 0
timeval_diff(a, b) ==
    LET sec == a.tv_sec - b.tv_sec
        usec == a.tv_usec - b.tv_usec
    IN IF usec < 0
       THEN [tv_sec |-> sec - 1,
             tv_usec |-> IF sec - 1 # 0 THEN usec + USEC_PER_SEC ELSE usec]
       ELSE [tv_sec |-> sec, tv_usec |-> usec]

\* sockaddr_cmp that compares the addresses and not the ports
sockaddr_cmp_addr(a, b) == IF a[1] # b[1] THEN 1 ELSE 0

\* 1 iff a # b (address and port)
sockaddr_cmp(a, b) == IF a[1] # b[1] \/ a[2] # b[2] THEN 1 ELSE 0

\* a > b on the expiration dates of two slots
pkt_slot_cmp(a, b) == timeval_cmp(a.ts, b.ts)

\* a truncation that does not mark the packet
SetTruncBit_none(b) == b

\* buf[0] |= 0x20
SetTruncBit(b) == IF (b \div 32) % 2 = 1 THEN b ELSE b + 32
\* ~b on one byte
InvertByte(b) == 255 - b
\* bit 0x20 of a byte
TruncBit(b) == (b \div 32) % 2

(***************************************************************************)
(* min_queue.c: a queue is [size, alloc, e], e the used slots 0..size-1    *)
(***************************************************************************)
LCHILD(x) == 2 * x
RCHILD(x) == 2 * x + 1
PARENT(x) == x \div 2

minq_new ==
    [size |-> 0, alloc |-> SLOTS_PER_MALLOC, e |-> [i \in {} |-> NullTime]]

minq_empty(q) == q.size = 0

minq_size(q) == q.size

\* the root, or "NULL"
minq_peek(q) == IF minq_empty(q) THEN "NULL" ELSE q.e[0]

\* heapify-up of v from insertion point i
RECURSIVE SiftUp(_, _, _)
SiftUp(e, i, v) ==
    IF i # 0 /\ pkt_slot_cmp(e[PARENT(i)], v)
    THEN SiftUp([e EXCEPT ![i] = e[PARENT(i)]], PARENT(i), v)
    ELSE [e EXCEPT ![i] = v]

minq_push(q, v) ==
    LET i == q.size
        e0 == [k \in 0..i |-> IF k < i THEN q.e[k] ELSE v]
    IN [size |-> q.size + 1,
        alloc |-> IF q.size = q.alloc THEN q.alloc + SLOTS_PER_MALLOC
                  ELSE q.alloc,
        e |-> SiftUp(e0, i, v)]

\* the queue pointer NULL: no slot array was ever allocated
NullQueue == [size |-> 0, alloc |-> 0, e |-> [i \in {} |-> NullTime]]

\* minq_push that books the new slots before it looks at what realloc
\* returned
minq_push_ret_book(q, v, mem) ==
    IF q = NullQueue THEN [ret |-> -1, queue |-> q]
    ELSE IF q.size = q.alloc /\ ~mem
    THEN [ret |-> -1,
          queue |-> [q EXCEPT !.alloc = q.alloc + SLOTS_PER_MALLOC]]
    ELSE [ret |-> 0, queue |-> minq_push(q, v)]

\* minq_push with its return value: -1 and the queue as it was when q is
\* NULL or when the slots are all used and realloc fails (mem is FALSE)
minq_push_ret(q, v, mem) ==
    IF q = NullQueue THEN [ret |-> -1, queue |-> q]
    ELSE IF q.size = q.alloc /\ ~mem THEN [ret |-> -1, queue |-> q]
    ELSE [ret |-> 0, queue |-> minq_push(q, v)]

\* has_child that never looks at the right child
has_child_left(e, size, i) ==
    IF LCHILD(i) >= size THEN 0 ELSE LCHILD(i)

\* smallest child of i among the first size slots, or 0 if none
has_child(e, size, i) ==
    LET left == LCHILD(i)
        right == left + 1
    IN IF left >= size THEN 0
       ELSE IF right < size /\ pkt_slot_cmp(e[left], e[right])
            THEN right
            ELSE left

\* a pop that leaves the moved entry at the root
SiftDown_none(e, size, current) == e

\* heapify-down from current
RECURSIVE SiftDown(_, _, _)
SiftDown(e, size, current) ==
    LET min_child == has_child(e, size, current)
    IN IF min_child # 0 /\ pkt_slot_cmp(e[current], e[min_child])
       THEN SiftDown([e EXCEPT ![current] = e[min_child],
                               ![min_child] = e[current]],
                     size, min_child)
       ELSE e

\* a pop that forgets the last entry without moving it to the root
minq_pop_last(q) ==
    IF minq_empty(q) THEN q
    ELSE [size |-> q.size - 1, alloc |-> q.alloc,
          e |-> [k \in 0..(q.size - 2) |-> q.e[k]]]

minq_pop(q) ==
    IF minq_empty(q) THEN q
    ELSE LET size == q.size - 1
             e0 == [q.e EXCEPT ![0] = q.e[size]]
             e1 == SiftDown(e0, size, 0)
         IN [size |-> size, alloc |-> q.alloc,
             e |-> [k \in 0..(size - 1) |-> e1[k]]]

(***************************************************************************)
(* State                                                                   *)
(***************************************************************************)
VARIABLES
    delay, jitter, err_rate, cut_rate, loss_rate, link_direction,
    pc,               \* position in proxy_loop
    last_clock,       \* cached timestamp
    pkt_queue,        \* queue of delayed packets
    src_addr,         \* the learned client
    has_source_addr,
    rfds,             \* FD_ISSET(sfd, &rfds) after select
    ev                \* what the last step did

config_vars == <<delay, jitter, err_rate, cut_rate, loss_rate, link_direction>>
vars == <<config_vars, pc, last_clock, pkt_queue, src_addr, has_source_addr,
          rfds, ev>>

SendOutcomes == {"ok", "transient", "fatal"}
NoEvent == [kind |-> "none"]
NoOut == [op |-> "none"]

\* tv_sec and tv_usec as one number of microseconds
Micros(tv) == tv.tv_sec * USEC_PER_SEC + tv.tv_usec

(***************************************************************************)
(* link_sim.c: egress, impairments, ingress                                *)
(***************************************************************************)
\* sendto towards the peer of the direction; snd is what sendto did:
\* "ok" (returned len), "transient" (EWOULDBLOCK, EINTR or EAGAIN in errno),
\* "fatal" (anything else)
write_out(buf, len, direction, src, snd) ==
    [ret |-> IF snd = "ok" THEN EXIT_SUCCESS ELSE EXIT_FAILURE,
     out |-> [op |-> "send",
              to |-> IF direction = LINK_FORWARD THEN dest_addr
                     ELSE IF direction = LINK_REVERSE THEN src
                     ELSE ZeroAddr,
              buf |-> SubSeq(buf, 1, len), len |-> len,
              direction |-> direction, outcome |-> snd]]

\* the k-th value the pipeline draws from rand(), ds the values available
rand_at(ds, k) == IF k <= Len(ds) THEN ds[k] ELSE 0

\* the corruption test as an if of its own, not an else branch
ErrDrawn_if(drop, trunc) == ~drop /\ err_rate # 0

\* line 188: the corruption draw is the else branch of the truncation
ErrDrawn(drop, trunc) == ~drop /\ ~trunc /\ err_rate # 0

\* applied_delay %= 10000 on an unsigned int: a negative raw is raw + 2^32
\* a cap taken on the signed difference, without the wrap of unsigned int
CapDelay_signed(raw) == raw % DELAY_CAP_MS

CapDelay(raw) ==
    IF raw >= 0 THEN raw % DELAY_CAP_MS
    ELSE ((raw % DELAY_CAP_MS) + UINT_WRAP_MOD_CAP) % DELAY_CAP_MS

\* loss, truncation, corruption and the applied delay of simulate_link for a
\* packet of len bytes; short says that ds holds fewer values than drawn
Impair(buf, len, ds) ==
    LET loss_drawn == loss_rate # 0
        n1 == IF loss_drawn THEN 1 ELSE 0
        drop == loss_drawn /\ RAND_PERCENT(rand_at(ds, n1)) < loss_rate
        cut_drawn == ~drop /\ cut_rate # 0
        n2 == n1 + (IF cut_drawn THEN 1 ELSE 0)
        cut_hit == cut_drawn /\ RAND_PERCENT(rand_at(ds, n2)) < cut_rate
        trunc == cut_hit /\ len > MIN_PKT_LEN
        len2 == IF trunc THEN MIN_PKT_LEN ELSE len
        buf1 == IF trunc THEN [buf EXCEPT ![1] = SetTruncBit(buf[1])] ELSE buf
        err_drawn == ErrDrawn(drop, trunc)
        n3 == n2 + (IF err_drawn THEN 1 ELSE 0)
        corrupt == err_drawn /\ RAND_PERCENT(rand_at(ds, n3)) < err_rate
        n4 == n3 + (IF corrupt THEN 1 ELSE 0)
        idx == IF corrupt THEN rand_at(ds, n4) % len2 ELSE -1
        buf2 == IF corrupt
                THEN [buf1 EXCEPT ![idx + 1] = InvertByte(buf1[idx + 1])]
                ELSE buf1
        jit_drawn == ~drop /\ delay # 0 /\ jitter # 0
        n6 == n4 + (IF jit_drawn THEN 2 ELSE 0)
        plus == RAND_PERCENT(rand_at(ds, n4 + 1)) > 49
        off == IF jit_drawn THEN rand_at(ds, n4 + 2) % jitter ELSE 0
        raw == IF ~jit_drawn THEN delay
               ELSE IF plus THEN delay + off ELSE delay - off
    IN [short |-> n6 > Len(ds), used |-> n6,
        drop |-> drop, cut_hit |-> cut_hit, trunc |-> trunc,
        corrupt |-> corrupt, idx |-> idx,
        applied |-> IF drop \/ delay = 0 THEN -1 ELSE CapDelay(raw),
        buf |-> buf2, len |-> len2]

\* expiration date of a slot: the cached clock plus the applied delay
SlotTs(now, applied_delay) ==
    [tv_sec |-> now.tv_sec + applied_delay \div 1000,
     tv_usec |-> now.tv_usec + (applied_delay % 1000) * 1000]

\* the slot simulate_link allocates for an impaired packet d; enq and applied
\* record the clock and the delay it was built from
NewSlot(d, direction, now) ==
    [ts |-> SlotTs(now, d.applied), direction |-> direction,
     size |-> d.len, buf |-> SubSeq(d.buf, 1, d.len),
     enq |-> now, applied |-> d.applied]

\* simulate_link that queues every packet it does not lose, whatever delay is
Transmit_queue(d, direction, now, q, src, snd, mem) ==
    IF d.drop
    THEN [ret |-> EXIT_SUCCESS, queue |-> q, out |-> NoOut,
          path |-> "drop", imp |-> d]
    ELSE [ret |-> EXIT_SUCCESS,
          queue |-> minq_push(q, NewSlot(d, direction, now)),
          out |-> [op |-> "enqueue", slot |-> NewSlot(d, direction, now)],
          path |-> "defer", imp |-> d]

\* simulate_link after the impairments: a lost packet d ends here, the
\* others are queued when a delay is configured and sent at once otherwise;
\* mem says whether malloc and minq_push find memory
Transmit(d, direction, now, q, src, snd, mem) ==
    IF d.drop
    THEN [ret |-> EXIT_SUCCESS, queue |-> q, out |-> NoOut,
          path |-> "drop", imp |-> d]
    ELSE IF delay # 0
    THEN IF ~mem
         THEN [ret |-> EXIT_FAILURE, queue |-> q, out |-> NoOut,
               path |-> "defer", imp |-> d]
         ELSE [ret |-> EXIT_SUCCESS,
               queue |-> minq_push(q, NewSlot(d, direction, now)),
               out |-> [op |-> "enqueue",
                        slot |-> NewSlot(d, direction, now)],
               path |-> "defer", imp |-> d]
    ELSE write_out(d.buf, d.len, direction, src, snd) @@
         [queue |-> q, path |-> "send", imp |-> d]

\* simulate_link whose random values are stirred with the cached clock
simulate_link_clock(buf, len, direction, now, q, src, ds, snd, mem) ==
    Transmit(Impair(buf, len, [i \in 1..Len(ds) |-> ds[i] + now.tv_sec]),
             direction, now, q, src, snd, mem)

\* simulate_link on a received packet
simulate_link(buf, len, direction, now, q, src, ds, snd, mem) ==
    Transmit(Impair(buf, len, ds), direction, now, q, src, snd, mem)

\* the impairments of a packet that does not go through simulate_link
NoImpair(buf, len) ==
    [short |-> FALSE, used |-> 0, drop |-> FALSE, cut_hit |-> FALSE,
     trunc |-> FALSE, corrupt |-> FALSE, idx |-> -1, applied |-> -1,
     buf |-> buf, len |-> len]

\* src_addr taken from every datagram
LearnSrc_always(from, src, has_src) == from

\* lines 260-265: the first sender becomes src_addr
LearnSrc(from, src, has_src) == IF ~has_src THEN from ELSE src

\* lines 266-277: the direction of a datagram from `from`, 0 if it comes
\* from neither end; the test against the client is the last one made
Direction(from, src) ==
    IF sockaddr_cmp(from, src) = 0 THEN LINK_FORWARD
    ELSE IF sockaddr_cmp(from, dest_addr) = 0 THEN LINK_REVERSE
    ELSE 0

\* lines 266-289: the datagram of a known client is discarded, relayed
\* untouched or handed to simulate_link
Dispatch(buf, len, direction, now, q, src, ds, snd, mem) ==
    IF direction = 0
    THEN [ret |-> EXIT_SUCCESS, queue |-> q, out |-> NoOut,
          path |-> "alien", imp |-> NoImpair(buf, len)]
    ELSE IF SAME_DIRECTION(direction, link_direction) = 0
    THEN write_out(buf, len, direction, src, snd) @@
         [queue |-> q, path |-> "relay", imp |-> NoImpair(buf, len)]
    ELSE simulate_link(buf, len, direction, now, q, src, ds, snd, mem)

\* process_incoming_pkt without the test of the length
process_incoming_pkt_nolen(dg, now, q, src, has_src, ds, snd, mem) ==
    Dispatch(Payload(dg.b0, dg.len), dg.len,
             Direction(dg.from, LearnSrc(dg.from, src, has_src)),
             now, q, LearnSrc(dg.from, src, has_src), ds, snd, mem) @@
    [src_addr |-> LearnSrc(dg.from, src, has_src),
     has_source_addr |-> TRUE,
     direction |-> Direction(dg.from, LearnSrc(dg.from, src, has_src))]

\* process_incoming_pkt after a successful recvfrom of datagram dg
process_incoming_pkt(dg, now, q, src, has_src, ds, snd, mem) ==
    IF dg.len < MIN_PKT_LEN
    THEN [ret |-> EXIT_SUCCESS, queue |-> q, out |-> NoOut,
          path |-> "malformed",
          imp |-> NoImpair(Payload(dg.b0, dg.len), dg.len),
          src_addr |-> src, has_source_addr |-> has_src, direction |-> 0]
    ELSE Dispatch(Payload(dg.b0, dg.len), dg.len,
                  Direction(dg.from, LearnSrc(dg.from, src, has_src)),
                  now, q, LearnSrc(dg.from, src, has_src), ds, snd, mem) @@
         [src_addr |-> LearnSrc(dg.from, src, has_src),
          has_source_addr |-> TRUE,
          direction |-> Direction(dg.from,
                                  LearnSrc(dg.from, src, has_src))]

\* a wait that is never given a timeout
get_queue_timeout_block(q, now) == [null |-> TRUE, tv |-> NullTime]

\* the time until the head expires, without the 1 ms floor
get_queue_timeout_nofloor(q, now) ==
    IF minq_empty(q) THEN [null |-> TRUE, tv |-> NullTime]
    ELSE [null |-> FALSE, tv |-> timeval_diff(minq_peek(q).ts, now)]

\* timeout handed to select: "NULL" or the time until the head expires,
\* 1 ms when that time is not positive
get_queue_timeout(q, now) ==
    IF minq_empty(q) THEN [null |-> TRUE, tv |-> NullTime]
    ELSE LET t == timeval_diff(minq_peek(q).ts, now)
         IN IF t.tv_sec < 0 \/ (t.tv_sec = 0 /\ t.tv_usec <= 0)
            THEN [null |-> FALSE, tv |-> [tv_sec |-> 0, tv_usec |-> 1000]]
            ELSE [null |-> FALSE, tv |-> t]

\* the sequences of rand() values drawn while dg is processed: the sequence
\* is extended with any value rand() can return until none is missing
RECURSIVE DrawSeqs(_, _)
DrawSeqs(dg, ds) ==
    LET R == process_incoming_pkt(dg, last_clock, pkt_queue, src_addr,
                                  has_source_addr, ds, "ok", TRUE)
    IN IF ~R.imp.short THEN {ds}
       ELSE UNION {DrawSeqs(dg, Append(ds, v)) : v \in RandVals}

\* the decisions taken on a datagram
Decision(R) ==
    [path |-> R.path, drop |-> R.imp.drop, trunc |-> R.imp.trunc,
     corrupt |-> R.imp.corrupt, idx |-> R.imp.idx, applied |-> R.imp.applied]

(***************************************************************************)
(* proxy_loop                                                              *)
(***************************************************************************)
Init ==
    /\ \E c \in Configs :
          /\ delay = c.delay /\ jitter = c.jitter
          /\ err_rate = c.err_rate /\ cut_rate = c.cut_rate
          /\ loss_rate = c.loss_rate /\ link_direction = c.link_direction
    /\ pc = "select"
    /\ last_clock = NullTime
    /\ pkt_queue = minq_new
    /\ src_addr = ZeroAddr
    /\ has_source_addr = FALSE
    /\ rfds = FALSE
    /\ ev = NoEvent

\* select(sfd+1, &rfds, NULL, NULL, get_queue_timeout())
Select ==
    /\ pc = "select"
    /\ LET t == get_queue_timeout(pkt_queue, last_clock)
       IN /\ ev' = [kind |-> "select", timeout |-> t]
          /\ \E res \in {"ready", "eintr", "error"} \cup
                        (IF t.null THEN {} ELSE {"expired"}) :
                /\ pc' = IF res = "eintr" THEN "select"
                         ELSE IF res = "error" THEN "exit"
                         ELSE "update"
                /\ rfds' = (res = "ready")
    /\ UNCHANGED <<config_vars, last_clock, pkt_queue, src_addr,
                   has_source_addr>>

\* update_time(): a reading of the monotonic clock, or its failure
UpdateTime ==
    /\ pc = "update"
    /\ \/ /\ pc' = "exit"
          /\ UNCHANGED last_clock
       \/ \E t \in Clocks :
             /\ ~timeval_cmp(last_clock, t)
             /\ last_clock' = t
             /\ pc' = "deliver"
    /\ ev' = NoEvent
    /\ UNCHANGED <<config_vars, pkt_queue, src_addr, has_source_addr,
                   rfds>>

\* a loop condition that looks at the seconds only
DeliverDue_sec(q, now) ==
    ~minq_empty(q) /\ now.tv_sec > minq_peek(q).ts.tv_sec

\* the loop condition of deliver_delayed_pkt
DeliverDue(q, now) == ~minq_empty(q) /\ timeval_cmp(now, minq_peek(q).ts)

\* deliver_delayed_pkt: one pass of the loop body
DeliverSend ==
    /\ pc = "deliver"
    /\ DeliverDue(pkt_queue, last_clock)
    /\ \E snd \in SendOutcomes :
          LET p == minq_peek(pkt_queue)
              w == write_out(p.buf, p.size, p.direction, src_addr, snd)
          IN /\ ev' = [kind |-> "deliver", slot |-> p, out |-> w.out,
                       now |-> last_clock]
             /\ IF w.ret = EXIT_SUCCESS
                THEN /\ pkt_queue' = minq_pop(pkt_queue)
                     /\ UNCHANGED pc
                ELSE /\ UNCHANGED pkt_queue
                     /\ pc' = IF snd = "transient" THEN "recv" ELSE "exit"
    /\ UNCHANGED <<config_vars, last_clock, src_addr, has_source_addr,
                   rfds>>

\* deliver_delayed_pkt: the loop ends, nothing is due
DeliverDone ==
    /\ pc = "deliver"
    /\ ~DeliverDue(pkt_queue, last_clock)
    /\ pc' = "recv"
    /\ ev' = NoEvent
    /\ UNCHANGED <<config_vars, last_clock, pkt_queue, src_addr,
                   has_source_addr, rfds>>

\* the socket was not marked readable
NoIncoming ==
    /\ pc = "recv"
    /\ ~rfds
    /\ pc' = "select"
    /\ ev' = NoEvent
    /\ UNCHANGED <<config_vars, last_clock, pkt_queue, src_addr,
                   has_source_addr, rfds>>

\* process_incoming_pkt: recvfrom fails
RecvFailed ==
    /\ pc = "recv"
    /\ rfds
    /\ \E err \in {"transient", "fatal"} :
          /\ pc' = IF err = "transient" THEN "select" ELSE "exit"
          /\ ev' = [kind |-> "recvfail", err |-> err]
    /\ UNCHANGED <<config_vars, last_clock, pkt_queue, src_addr,
                   has_source_addr, rfds>>

\* what the paths of process_incoming_pkt need from the environment
SendChoices(path) == IF path \in {"relay", "send"} THEN SendOutcomes ELSE {"ok"}
MemChoices(path) == IF path = "defer" THEN BOOLEAN ELSE {TRUE}

\* process_incoming_pkt: recvfrom returns a datagram
ProcessIncoming ==
    /\ pc = "recv"
    /\ rfds
    /\ \E dg \in Datagrams :
       \E ds \in DrawSeqs(dg, <<>>) :
          LET P == process_incoming_pkt(dg, last_clock, pkt_queue, src_addr,
                                        has_source_addr, ds, "ok", TRUE)
          IN \E snd \in SendChoices(P.path) :
             \E mem \in MemChoices(P.path) :
                LET R == process_incoming_pkt(dg, last_clock, pkt_queue,
                                              src_addr, has_source_addr,
                                              ds, snd, mem)
                IN /\ minq_size(R.queue) <= MaxQueue
                   /\ pkt_queue' = R.queue
                   /\ src_addr' = R.src_addr
                   /\ has_source_addr' = R.has_source_addr
                   /\ pc' = IF R.ret = EXIT_SUCCESS THEN "select" ELSE "exit"
                   /\ ev' = [kind |-> "recv", dg |-> dg,
                             buf |-> Payload(dg.b0, dg.len),
                             src0 |-> src_addr, has0 |-> has_source_addr,
                             now |-> last_clock,
                             path |-> R.path, direction |-> R.direction,
                             ds |-> ds, snd |-> snd, mem |-> mem,
                             imp |-> R.imp, out |-> R.out, ret |-> R.ret]
    /\ UNCHANGED <<config_vars, last_clock, rfds>>

Next ==
    \/ Select
    \/ UpdateTime
    \/ DeliverSend
    \/ DeliverDone
    \/ NoIncoming
    \/ RecvFailed
    \/ ProcessIncoming

Spec == Init /\ [][Next]_vars

(***************************************************************************)
(* The queue driven directly through minq_push and minq_pop                *)
(***************************************************************************)
\* expiration dates pushed: equal ones, and one whose tv_usec is not reduced
HeapTimes ==
    { [tv_sec |-> 0, tv_usec |-> 0], [tv_sec |-> 0, tv_usec |-> 999000],
      [tv_sec |-> 0, tv_usec |-> 1499000], [tv_sec |-> 1, tv_usec |-> 0] }
HeapSlots ==
    { [ts |-> t, direction |-> d, size |-> MIN_PKT_LEN,
       buf |-> Payload(0, MIN_PKT_LEN), enq |-> NullTime, applied |-> 0] :
      t \in HeapTimes, d \in {LINK_FORWARD, LINK_REVERSE} }

InitHeap ==
    /\ delay = 0 /\ jitter = 0 /\ err_rate = 0 /\ cut_rate = 0
    /\ loss_rate = 0 /\ link_direction = LINK_FORWARD
    /\ pc = "select"
    /\ last_clock = NullTime
    /\ pkt_queue = minq_new
    /\ src_addr = ZeroAddr
    /\ has_source_addr = FALSE
    /\ rfds = FALSE
    /\ ev = NoEvent

HeapPush ==
    /\ minq_size(pkt_queue) < MaxHeap
    /\ \E v \in HeapSlots : pkt_queue' = minq_push(pkt_queue, v)
    /\ UNCHANGED <<config_vars, pc, last_clock, src_addr, has_source_addr,
                   rfds, ev>>

HeapPop ==
    /\ pkt_queue' = minq_pop(pkt_queue)
    /\ UNCHANGED <<config_vars, pc, last_clock, src_addr, has_source_addr,
                   rfds, ev>>

NextHeap == HeapPush \/ HeapPop

SpecHeap == InitHeap /\ [][NextHeap]_vars

(***************************************************************************)
(* The queue around the end of its allocated slots, and the queue NULL     *)
(***************************************************************************)
\* slots pushed: one early and one late expiration date
QueueSlots == {v \in HeapSlots : v.direction = LINK_FORWARD /\ v.ts.tv_usec = 0}

\* the slot pushed in n-th place while the queue is filled
FillSlot(n) ==
    [ts |-> [tv_sec |-> (n * 3) % 5, tv_usec |-> 0],
     direction |-> LINK_REVERSE, size |-> MIN_PKT_LEN,
     buf |-> Payload(0, MIN_PKT_LEN), enq |-> NullTime, applied |-> 0]

\* the queue after n pushes on a new queue
RECURSIVE Filled(_)
Filled(n) == IF n = 0 THEN minq_new ELSE minq_push(Filled(n - 1), FillSlot(n))

InitQueue ==
    /\ delay = 0 /\ jitter = 0 /\ err_rate = 0 /\ cut_rate = 0
    /\ loss_rate = 0 /\ link_direction = LINK_FORWARD
    /\ pc = "select"
    /\ last_clock = NullTime
    /\ pkt_queue \in {NullQueue, minq_new, Filled(SLOTS_PER_MALLOC - 1)}
    /\ src_addr = ZeroAddr
    /\ has_source_addr = FALSE
    /\ rfds = FALSE
    /\ ev = NoEvent

\* minq_push on a queue that is NULL, or within MaxGrow slots of the end of
\* its first allocation
QueuePush ==
    /\ \/ pkt_queue = NullQueue
       \/ /\ minq_size(pkt_queue) >= SLOTS_PER_MALLOC - 1
          /\ minq_size(pkt_queue) < SLOTS_PER_MALLOC + MaxGrow
    /\ \E v \in QueueSlots, mem \in BOOLEAN :
          /\ pkt_queue' = minq_push_ret(pkt_queue, v, mem).queue
          /\ ev' = [kind |-> "push", before |-> pkt_queue,
                    ret |-> minq_push_ret(pkt_queue, v, mem).ret]
    /\ UNCHANGED <<config_vars, pc, last_clock, src_addr, has_source_addr,
                   rfds>>

QueuePop ==
    /\ pkt_queue' = minq_pop(pkt_queue)
    /\ ev' = [kind |-> "pop", before |-> pkt_queue, ret |-> 0]
    /\ UNCHANGED <<config_vars, pc, last_clock, src_addr, has_source_addr,
                   rfds>>

QueuePeek ==
    /\ ev' = [kind |-> "peek", before |-> pkt_queue,
              ret |-> minq_peek(pkt_queue)]
    /\ UNCHANGED <<config_vars, pc, last_clock, pkt_queue, src_addr,
                   has_source_addr, rfds>>

NextQueue == QueuePush \/ QueuePop \/ QueuePeek

SpecQueue == InitQueue /\ [][NextQueue]_vars

(***************************************************************************)
(* proxy_loop taken up with packets in the queue, at clock readings around *)
(* their expiration dates                                                  *)
(***************************************************************************)
\* -d 1500 -R
TimerConfig == Config(1500, 0, 0, 0, 0, LINK_BOTH_WAYS)
\* cached clocks at which the queued packets were received
TimerEnq == {NullTime, [tv_sec |-> 0, tv_usec |-> 999000]}
\* cached clocks the loop is taken up at: before, 500 us before, at and
\* after the expiration date of a packet received at clock 0
TimerClocks ==
    TimerEnq \cup
    { [tv_sec |-> 1, tv_usec |-> 499500], [tv_sec |-> 1, tv_usec |-> 500000],
      [tv_sec |-> 2, tv_usec |-> 0] }
\* the slot simulate_link built at cached clock enq for a datagram of the
\* client that was not altered
TimerSlot(enq) ==
    NewSlot(Impair(Payload(0, MIN_PKT_LEN), MIN_PKT_LEN, <<>>),
            LINK_FORWARD, enq)
\* the queues after at most two such datagrams, received in clock order
TimerQueues ==
    {minq_new} \cup
    {minq_push(minq_new, TimerSlot(a)) : a \in TimerEnq} \cup
    {minq_push(minq_push(minq_new, TimerSlot(a)), TimerSlot(b)) :
        a \in {NullTime}, b \in TimerEnq}

InitTimer ==
    /\ delay = TimerConfig.delay /\ jitter = TimerConfig.jitter
    /\ err_rate = TimerConfig.err_rate /\ cut_rate = TimerConfig.cut_rate
    /\ loss_rate = TimerConfig.loss_rate
    /\ link_direction = TimerConfig.link_direction
    /\ pc \in {"select", "deliver"}
    /\ pkt_queue \in TimerQueues
    /\ last_clock \in TimerClocks
    /\ \A i \in 0..(minq_size(pkt_queue) - 1) :
          ~timeval_cmp(pkt_queue.e[i].enq, last_clock)
    /\ src_addr = <<"::1", 5000>>
    /\ has_source_addr = TRUE
    /\ rfds \in BOOLEAN
    /\ ev = NoEvent

SpecTimer == InitTimer /\ [][Next]_vars

(***************************************************************************)
(* The program run with delays and jitters on both sides of the 10 s cap   *)
(* and of each other                                                       *)
(***************************************************************************)
\* -d 5 -j 3, -d 12000, -d 9999 -j 3, -d 1 -j 3, -d 10000, on the forward
\* link (the default)
DelayConfigs ==
    { Config(5, 3, 0, 0, 0, LINK_FORWARD),
      Config(12000, 0, 0, 0, 0, LINK_FORWARD),
      Config(9999, 3, 0, 0, 0, LINK_FORWARD),
      Config(1, 3, 0, 0, 0, LINK_FORWARD),
      Config(10000, 0, 0, 0, 0, LINK_FORWARD) }

InitDelay ==
    /\ \E c \in DelayConfigs :
          /\ delay = c.delay /\ jitter = c.jitter
          /\ err_rate = c.err_rate /\ cut_rate = c.cut_rate
          /\ loss_rate = c.loss_rate /\ link_direction = c.link_direction
    /\ pc = "select"
    /\ last_clock = NullTime
    /\ pkt_queue = minq_new
    /\ src_addr = ZeroAddr
    /\ has_source_addr = FALSE
    /\ rfds = FALSE
    /\ ev = NoEvent

SpecDelay == InitDelay /\ [][Next]_vars

(***************************************************************************)
(* The program run with a constant delay, under the scheduling the         *)
(* operating system provides: a wait with a timeout returns, the clock     *)
(* goes on, a send does not fail forever                                   *)
(***************************************************************************)
\* -d 500 -R
LiveConfig == Config(500, 0, 0, 0, 0, LINK_BOTH_WAYS)

InitLive ==
    /\ delay = LiveConfig.delay /\ jitter = LiveConfig.jitter
    /\ err_rate = LiveConfig.err_rate /\ cut_rate = LiveConfig.cut_rate
    /\ loss_rate = LiveConfig.loss_rate
    /\ link_direction = LiveConfig.link_direction
    /\ pc = "select"
    /\ last_clock = NullTime
    /\ pkt_queue = minq_new
    /\ src_addr = ZeroAddr
    /\ has_source_addr = FALSE
    /\ rfds = FALSE
    /\ ev = NoEvent

\* select returns because its timeout has run out
TimerExpires == Select /\ pc' = "update" /\ ~rfds'
\* update_time reads a later clock
ClockAdvances == UpdateTime /\ timeval_cmp(last_clock', last_clock)
\* the sendto of deliver_delayed_pkt succeeds
SendSucceeds == DeliverSend /\ pkt_queue' # pkt_queue

LiveFairness ==
    /\ WF_vars(TimerExpires)
    /\ WF_vars(UpdateTime)
    /\ SF_vars(ClockAdvances)
    /\ WF_vars(DeliverSend \/ DeliverDone)
    /\ SF_vars(SendSucceeds)
    /\ WF_vars(NoIncoming)
    /\ WF_vars(RecvFailed \/ ProcessIncoming)

SpecLive == InitLive /\ [][Next]_vars /\ LiveFairness

(***************************************************************************)
(* proxy_loop taken up after three datagrams of the client were deferred   *)
(* with a constant delay                                                   *)
(***************************************************************************)
\* -d 500
FifoConfig == Config(500, 0, 0, 0, 0, LINK_FORWARD)
\* cached clocks at which the three datagrams were received; none of them
\* has expired at the later one
FifoEnq == {NullTime, [tv_sec |-> 0, tv_usec |-> 400000]}
\* the datagrams, in the order received: 12 bytes, 13 bytes starting with
\* 0x00, 13 bytes starting with 0x20
FifoLen(n) == IF n = 1 THEN MIN_PKT_LEN ELSE MIN_PKT_LEN + 1
FifoByte(n) == IF n = 3 THEN 32 ELSE 0
\* the slot simulate_link built for the n-th of them at cached clock enq
FifoSlot(n, enq) ==
    [ts |-> SlotTs(enq, FifoConfig.delay), direction |-> LINK_FORWARD,
     size |-> FifoLen(n), buf |-> Payload(FifoByte(n), FifoLen(n)),
     enq |-> enq, applied |-> FifoConfig.delay]
\* the queue after the three pushes, made at cached clocks a, b and c
FifoQueue(a, b, c) ==
    minq_push(minq_push(minq_push(minq_new, FifoSlot(1, a)), FifoSlot(2, b)),
              FifoSlot(3, c))

InitFifo ==
    /\ delay = FifoConfig.delay /\ jitter = FifoConfig.jitter
    /\ err_rate = FifoConfig.err_rate /\ cut_rate = FifoConfig.cut_rate
    /\ loss_rate = FifoConfig.loss_rate
    /\ link_direction = FifoConfig.link_direction
    /\ pc = "select"
    /\ \E a \in FifoEnq, b \in FifoEnq, c \in FifoEnq :
          /\ ~timeval_cmp(a, b) /\ ~timeval_cmp(b, c)
          /\ pkt_queue = FifoQueue(a, b, c)
          /\ last_clock = c
    /\ src_addr = <<"::1", 5000>>
    /\ has_source_addr = TRUE
    /\ rfds = FALSE
    /\ ev = NoEvent

SpecFifo == InitFifo /\ [][Next]_vars

(***************************************************************************)
(* Properties                                                              *)
(***************************************************************************)
\* what the last step handed to sendto or put in the queue
HasOut(e) == e.kind \in {"recv", "deliver"} /\ e.out.op # "none"
OutBuf(e) == IF e.out.op = "send" THEN e.out.buf ELSE e.out.slot.buf
OutLen(e) == IF e.out.op = "send" THEN e.out.len ELSE e.out.slot.size
\* the last step took a datagram through the impairments of simulate_link
InPipeline(e) == e.kind = "recv" /\ e.path \in {"drop", "send", "defer"}
\* the direction is not one the link is simulated on
NotSelected(direction, mask) ==
    \/ mask = LINK_FORWARD /\ direction = LINK_REVERSE
    \/ mask = LINK_REVERSE /\ direction = LINK_FORWARD

\* C1: a packet deferred with applied delay d at cached clock T is never
\* handed to the egress writer at a cached clock earlier than T + d ms.
C1_NoEarlyTransmission ==
    ev.kind = "deliver" =>
        Micros(ev.now) >= Micros(ev.slot.enq) + ev.slot.applied * 1000

\* the elements of q in the order minq_peek and minq_pop yield them
RECURSIVE PopOrder(_)
PopOrder(q) ==
    IF minq_empty(q) THEN <<>>
    ELSE <<minq_peek(q)>> \o PopOrder(minq_pop(q))

\* how many times x is among the first n slots of e / the entries of sq
CountIn(e, n, x) == Cardinality({i \in 0..(n - 1) : e[i] = x})
CountSeq(sq, x) == Cardinality({i \in 1..Len(sq) : sq[i] = x})

\* C2: after any interleaving of minq_push and minq_pop, no element of the
\* queue is smaller than the one minq_peek returns, and popping the queue
\* until it is empty yields its elements, each as often as it was stored,
\* in non-decreasing order of the comparator.
C2_HeapOrdering ==
    LET q == pkt_queue
        order == PopOrder(q)
    IN /\ ~minq_empty(q) =>
             \A i \in 0..(q.size - 1) : ~pkt_slot_cmp(minq_peek(q), q.e[i])
       /\ Len(order) = q.size
       /\ \A x \in HeapSlots : CountSeq(order, x) = CountIn(q.e, q.size, x)
       /\ \A i, j \in 1..Len(order) :
             i < j => ~pkt_slot_cmp(order[i], order[j])

\* a queue of four or more slots with two equal expiration dates whose array
\* order is not the pop order, reached after a pop
C2_Witness ==
    /\ pkt_queue.size >= 4
    /\ \E i, j \in 0..(pkt_queue.size - 1) :
          i < j /\ pkt_slot_cmp(pkt_queue.e[i], pkt_queue.e[j])
    /\ \E i, j \in 0..(pkt_queue.size - 1) :
          i # j /\ pkt_queue.e[i].ts = pkt_queue.e[j].ts
    /\ pkt_queue.e[1].ts # pkt_queue.e[0].ts

\* what sendto and malloc do to one datagram: at most one of them is called
Environments ==
    {[snd |-> o, mem |-> TRUE] : o \in SendOutcomes} \cup
    {[snd |-> "ok", mem |-> FALSE]}

\* C3: the decisions taken on a datagram (path, drop, truncate, corrupt,
\* byte index, applied delay), the number of rand() values drawn for it and
\* the client learned from it are the same as with an empty queue and any
\* clock reading, any outcome of the send and of the allocation; and no
\* step other than the processing of a datagram changes the learned client.
\* Two runs with the same rand() sequence and the same datagrams therefore
\* decide alike, datagram after datagram.
C3_Determinism ==
    /\ [](ev.kind = "recv" =>
            \A now \in Clocks, env \in Environments :
               LET A == process_incoming_pkt(ev.dg, now, minq_new, ev.src0,
                                             ev.has0, ev.ds, env.snd, env.mem)
               IN /\ Decision(A) = Decision(ev)
                  /\ ~A.imp.short /\ A.imp.used = Len(ev.ds)
                  /\ A.src_addr = src_addr
                  /\ A.has_source_addr = has_source_addr)
    /\ [][ev'.kind # "recv" =>
            src_addr' = src_addr /\ has_source_addr' = has_source_addr]_vars

\* a corrupted packet, three values drawn, whose send failed, at a clock
\* reading that is not the initial one
C3_Witness ==
    /\ ev.kind = "recv" /\ ev.imp.corrupt /\ Len(ev.ds) >= 3
    /\ ev.out.op = "send" /\ ev.out.outcome = "transient"
    /\ last_clock # NullTime

\* C4: a datagram of at least MIN_PKT_LEN bytes whose direction the link is
\* not simulated on is handed to sendto in the same step, towards the peer of
\* its direction, with the bytes and the length received; no random value is
\* drawn for it and the queue is left as it was.
C4_DirectionGating ==
    [][(/\ ev'.kind = "recv"
        /\ ev'.dg.len >= MIN_PKT_LEN
        /\ NotSelected(ev'.direction, link_direction))
       => /\ ev'.out.op = "send"
          /\ ev'.out.buf = ev'.buf
          /\ ev'.out.len = ev'.dg.len
          /\ ev'.out.to = IF ev'.direction = LINK_FORWARD
                          THEN dest_addr ELSE src_addr'
          /\ ev'.ds = <<>>
          /\ pkt_queue' = pkt_queue]_vars

\* reverse-only loss of 100: a datagram of the client is relayed as it is
C4_Witness ==
    /\ ev.kind = "recv" /\ ev.direction = LINK_FORWARD
    /\ link_direction = LINK_REVERSE /\ loss_rate = 100
    /\ ev.out.op = "send" /\ ev.out.outcome = "ok" /\ ev.out.to = dest_addr
    /\ ev.dg.len > MIN_PKT_LEN /\ ev.dg.b0 = 32

\* C5: once the client is learned, a datagram from neither src_addr nor
\* dest_addr causes no send and no enqueue, leaves src_addr and the queue as
\* they were and the loop goes on; a datagram of at least MIN_PKT_LEN bytes
\* from the learned client is forward traffic.
C5_AlienIsolation ==
    [][/\ (/\ ev'.kind = "recv" /\ has_source_addr
           /\ ev'.dg.from # src_addr /\ ev'.dg.from # dest_addr)
          => /\ ev'.out.op = "none"
             /\ pkt_queue' = pkt_queue
             /\ src_addr' = src_addr /\ has_source_addr'
             /\ pc' = "select"
       /\ (/\ ev'.kind = "recv" /\ has_source_addr
           /\ ev'.dg.from = src_addr /\ ev'.dg.len >= MIN_PKT_LEN)
          => /\ ev'.direction = LINK_FORWARD
             /\ ev'.path \in {"relay", "drop", "send", "defer"}]_vars

\* a well-formed datagram of a third sender while a packet is queued
C5_Witness ==
    /\ ev.kind = "recv" /\ ev.has0
    /\ ev.dg.from # ev.src0 /\ ev.dg.from # dest_addr
    /\ ev.src0 # dest_addr
    /\ ev.dg.len >= MIN_PKT_LEN
    /\ ~minq_empty(pkt_queue)

\* C6: once has_source_addr is set, it stays set and src_addr keeps its value.
C6_LearnedOnce ==
    [][has_source_addr => has_source_addr' /\ src_addr' = src_addr]_vars

\* a well-formed datagram of another sender was processed after the learning
C6_Witness ==
    /\ ev.kind = "recv" /\ ev.has0 /\ has_source_addr
    /\ ev.dg.len >= MIN_PKT_LEN
    /\ ev.dg.from # src_addr

\* C7: a send that fails with EWOULDBLOCK, EINTR or EAGAIN never ends the
\* loop, on the drain, on the immediate send and on the verbatim relay.
C7_TransientNeverAborts ==
    (HasOut(ev) /\ ev.out.op = "send" /\ ev.out.outcome = "transient")
        => pc # "exit"

\* C8: a percentage of 0 never fires; a percentage of 100 fires for every
\* eligible packet, whatever rand() % 101 is.
C8_PercentSemantics ==
    InPipeline(ev) =>
        /\ loss_rate = 0 => ~ev.imp.drop
        /\ loss_rate = 100 => ev.imp.drop /\ ev.out.op = "none"
        /\ cut_rate = 0 => ~ev.imp.trunc
        /\ (cut_rate = 100 /\ ~ev.imp.drop /\ ev.dg.len > MIN_PKT_LEN)
              => ev.imp.trunc
        /\ err_rate = 0 => ~ev.imp.corrupt
        /\ (err_rate = 100 /\ ~ev.imp.drop /\ ~ev.imp.trunc)
              => ev.imp.corrupt

\* C9 as stated: a truncated packet has MIN_PKT_LEN bytes and bit 0x20 of
\* byte 0 set; a packet that is not truncated has bit 0x20 of byte 0 as it
\* was received.
C9_TruncationAsStated ==
    (ev.kind = "recv" /\ HasOut(ev)) =>
        /\ ev.imp.trunc =>
              OutLen(ev) = MIN_PKT_LEN /\ TruncBit(OutBuf(ev)[1]) = 1
        /\ ~ev.imp.trunc =>
              TruncBit(OutBuf(ev)[1]) = TruncBit(ev.buf[1])

\* C9 amended: a truncated packet has MIN_PKT_LEN bytes and bit 0x20 of byte 0
\* set; a packet that is not truncated has bit 0x20 of byte 0 as it was
\* received, unless the corruption inverted byte 0: then the bit is inverted.
C9_Truncation ==
    (ev.kind = "recv" /\ HasOut(ev)) =>
        /\ ev.imp.trunc =>
              /\ OutLen(ev) = MIN_PKT_LEN /\ Len(OutBuf(ev)) = MIN_PKT_LEN
              /\ TruncBit(OutBuf(ev)[1]) = 1
        /\ (~ev.imp.trunc /\ ~(ev.imp.corrupt /\ ev.imp.idx = 0)) =>
              TruncBit(OutBuf(ev)[1]) = TruncBit(ev.buf[1])
        /\ (~ev.imp.trunc /\ ev.imp.corrupt /\ ev.imp.idx = 0) =>
              TruncBit(OutBuf(ev)[1]) = 1 - TruncBit(ev.buf[1])

\* a packet received with the bit clear is truncated and queued
C9_Witness ==
    /\ ev.kind = "recv" /\ ev.imp.trunc
    /\ ev.out.op = "enqueue"
    /\ ev.dg.b0 = 0 /\ OutBuf(ev)[1] = 32

\* the packet handed on is shorter than the datagram received
Truncated(e) == OutLen(e) < e.dg.len
\* one byte of the packet handed on is the inverse of the byte received
Corrupted(e) ==
    \E i \in 1..OutLen(e) :
        OutBuf(e)[i] = InvertByte(e.buf[i]) \/
        OutBuf(e)[i] = InvertByte(SetTruncBit(e.buf[i]))
\* position in ev.ds of the truncation draw
CutDrawPos == (IF loss_rate # 0 THEN 1 ELSE 0) + 1

\* C10: no packet is both truncated and corrupted by one pass; a packet of
\* MIN_PKT_LEN bytes whose truncation draw succeeds is not truncated and the
\* next draw decides whether it is corrupted.
C10_Exclusivity ==
    /\ ev.kind = "recv" => ~(ev.imp.trunc /\ ev.imp.corrupt)
    /\ (ev.kind = "recv" /\ HasOut(ev)) => ~(Truncated(ev) /\ Corrupted(ev))
    /\ (/\ InPipeline(ev) /\ ~ev.imp.drop /\ cut_rate # 0
        /\ RAND_PERCENT(ev.ds[CutDrawPos]) < cut_rate
        /\ ev.dg.len = MIN_PKT_LEN)
       => /\ ~ev.imp.trunc
          /\ HasOut(ev) => ~Truncated(ev)
          /\ err_rate # 0 =>
                /\ Len(ev.ds) > CutDrawPos
                /\ ev.imp.corrupt <=>
                      RAND_PERCENT(ev.ds[CutDrawPos + 1]) < err_rate
                /\ (ev.imp.corrupt /\ HasOut(ev)) => Corrupted(ev)

\* the truncation draw succeeds on a packet of MIN_PKT_LEN bytes, which is
\* then corrupted and sent
C10_Witness ==
    /\ InPipeline(ev) /\ ev.dg.len = MIN_PKT_LEN
    /\ cut_rate # 0 /\ ev.imp.cut_hit
    /\ ev.imp.corrupt /\ ev.out.op = "send" /\ Corrupted(ev)

\* C11: a received datagram shorter than MIN_PKT_LEN is neither sent nor
\* enqueued, draws no value from rand(), and the loop goes on to the next
\* select.
C11_ShortDrop ==
    [][(ev'.kind = "recv" /\ ev'.dg.len < MIN_PKT_LEN) =>
          /\ ev'.out = NoOut
          /\ pkt_queue' = pkt_queue
          /\ ev'.ds = <<>> /\ ev'.imp.used = 0
          /\ ev'.ret = EXIT_SUCCESS /\ pc' = "select"]_vars

\* a short datagram of the destination arrives on a link that loses every
\* reverse packet, after the client was learned
C11_Witness ==
    /\ ev.kind = "recv" /\ ev.dg.len < MIN_PKT_LEN
    /\ ev.has0 /\ ev.dg.from = dest_addr
    /\ loss_rate = 100 /\ link_direction = LINK_REVERSE

\* C12: with delay 0 the queue of delayed packets is empty in every state and
\* the drain never sends; whatever is handed to sendto is the datagram
\* received in that same step, after its impairments and in its direction.
\* The sends therefore follow the order of the receptions.
C12_NoReorder ==
    delay = 0 =>
        /\ minq_empty(pkt_queue)
        /\ ev.kind # "deliver"
        /\ (ev.kind = "recv" /\ ev.out # NoOut) =>
              /\ ev.out.op = "send"
              /\ ev.out.direction = ev.direction
              /\ ev.out.len = ev.imp.len /\ ev.out.len <= ev.dg.len
              /\ ev.out.buf = SubSeq(ev.imp.buf, 1, ev.imp.len)

\* with delay 0, a datagram of the learned client is sent on an impaired
\* link after an earlier datagram was received
C12_Witness ==
    /\ delay = 0 /\ jitter = 0
    /\ ev.kind = "recv" /\ ev.has0 /\ ev.dg.from = ev.src0
    /\ ev.path = "send" /\ ev.out.op = "send" /\ ev.out.outcome = "ok"
    /\ ev.direction = LINK_FORWARD

\* C13: a minq_push that returns non-zero, a minq_pop on an empty queue and
\* any minq_peek leave the size, the allocation and the stored elements as
\* they were; minq_peek on an empty queue returns NULL.
C13_QueueFrame ==
    /\ (ev.kind = "push" /\ ev.ret # 0) => pkt_queue = ev.before
    /\ (ev.kind = "pop" /\ minq_empty(ev.before)) => pkt_queue = ev.before
    /\ ev.kind = "peek" =>
          /\ pkt_queue = ev.before
          /\ minq_empty(ev.before) => ev.ret = "NULL"

\* realloc fails on a queue whose slots are all used
C13_Witness ==
    /\ ev.kind = "push" /\ ev.ret # 0
    /\ ev.before # NullQueue
    /\ minq_size(ev.before) = SLOTS_PER_MALLOC
    /\ minq_size(pkt_queue) = SLOTS_PER_MALLOC

\* the larger of two numbers
Max(a, b) == IF a >= b THEN a ELSE b

\* C14: select is given no timeout when the queue is empty, and otherwise
\* max(1 ms, expiration date of the head - cached clock).
C14_TimeoutExact ==
    ev.kind = "select" =>
        IF minq_empty(pkt_queue) THEN ev.timeout.null
        ELSE /\ ~ev.timeout.null
             /\ Micros(ev.timeout.tv) =
                   Max(1000, Micros(minq_peek(pkt_queue).ts) - Micros(last_clock))

\* C15: every expiration date in the queue is a normalised timestamp, the
\* cached clock at enqueue time plus the applied delay, with a microsecond
\* field in 0..999999.
C15_DeadlineNormalised ==
    \A i \in 0..(minq_size(pkt_queue) - 1) :
        /\ pkt_queue.e[i].ts.tv_usec \in 0..(USEC_PER_SEC - 1)
        /\ Micros(pkt_queue.e[i].ts) =
              Micros(pkt_queue.e[i].enq) + pkt_queue.e[i].applied * 1000

\* C16: after a drain that met no send failure, no packet whose expiration
\* date is at or before the refreshed clock remains in the queue.
C16_DrainComplete ==
    (pc = "recv" /\ ev = NoEvent) =>
        \A i \in 0..(minq_size(pkt_queue) - 1) :
            Micros(pkt_queue.e[i].ts) > Micros(last_clock)

\* C18: a datagram from the destination is classified as reverse, also when
\* the learned client address equals the destination address.
C18_DestinationFirst ==
    (ev.kind = "recv" /\ ev.dg.len >= MIN_PKT_LEN /\ ev.dg.from = dest_addr) =>
        ev.direction = LINK_REVERSE

\* C19: the source of the first datagram becomes the client address and the
\* client is known from then on, also when that datagram is shorter than
\* MIN_PKT_LEN.
C19_LearnBeforeLength ==
    (ev.kind = "recv" /\ ~ev.has0) =>
        has_source_addr /\ src_addr = ev.dg.from

\* some queued packet has an expiration date before the cached clock
Overdue == \E i \in 0..(minq_size(pkt_queue) - 1) :
               Micros(pkt_queue.e[i].ts) < Micros(last_clock)

\* one step keeps the order of an iteration: wait, one refresh of the
\* clock, the drain, then at most one datagram
IterationStep ==
    /\ pc = "select" => pc' \in {"select", "update", "exit"}
    /\ pc = "update" => pc' \in {"deliver", "exit"}
    /\ pc = "deliver" => pc' \in {"deliver", "recv", "exit"}
    /\ pc = "recv" => pc' \in {"select", "exit"}
    /\ last_clock' # last_clock => pc = "update"
    /\ pkt_queue' # pkt_queue => pc \in {"deliver", "recv"}
    /\ ev'.kind \in {"recv", "recvfail"} => pc = "recv" /\ rfds

\* C17 as stated: the order of an iteration is kept, and no datagram is
\* accepted while a packet whose expiration date has passed is queued.
C17_NoIngressWhileDue ==
    [][IterationStep /\ (ev'.kind = "recv" => ~Overdue)]_vars

\* C17: the order of an iteration is kept, and a datagram is accepted while
\* a packet whose expiration date has passed is queued only when the drain
\* of this iteration has just stopped on a transient send failure.
C17_IterationOrder ==
    [][/\ IterationStep
       /\ (ev'.kind = "recv" /\ Overdue) =>
             /\ ev.kind = "deliver" /\ ev.out.outcome = "transient"
             /\ ev.slot = minq_peek(pkt_queue)]_vars

\* a datagram was passed on while a packet received at an earlier clock,
\* expired and not sent by the drain, stays queued
C17_Witness ==
    /\ ev.kind = "recv" /\ ev.path = "relay" /\ ev.out.outcome = "ok"
    /\ minq_size(pkt_queue) = 1
    /\ timeval_cmp(last_clock, pkt_queue.e[0].enq)
    /\ Overdue

\* the jitter of the packet just received was subtracted / its amount (the
\* two values drawn last)
JitterMinus == RAND_PERCENT(ev.ds[ev.imp.used - 1]) <= 49
JitterOffset == ev.ds[ev.imp.used] % jitter

\* C20: the applied delay of every deferred packet is in 0..9999; it is
\* delay mod 10000 without jitter, within delay -/+ jitter when
\* 0 < jitter <= delay and delay + jitter < 10000, and the wrapped value
\* ((delay - offset) mod 2^32) mod 10000 when a subtracted offset exceeds
\* delay (2^32 mod 10000 = 7296).
C20_AppliedDelay ==
    /\ \A i \in 0..(minq_size(pkt_queue) - 1) :
          pkt_queue.e[i].applied \in 0..(DELAY_CAP_MS - 1)
    /\ (ev.kind = "recv" /\ ev.path = "defer") =>
          /\ ev.imp.applied \in 0..(DELAY_CAP_MS - 1)
          /\ ev.out # NoOut => ev.out.slot.applied = ev.imp.applied
          /\ jitter = 0 => ev.imp.applied = delay % DELAY_CAP_MS
          /\ (jitter > 0 /\ jitter <= delay /\ delay + jitter < DELAY_CAP_MS)
                => ev.imp.applied \in (delay - jitter)..(delay + jitter)
          /\ (jitter > 0 /\ JitterMinus /\ JitterOffset > delay) =>
                ev.imp.applied =
                   (UINT_WRAP_MOD_CAP - (JitterOffset - delay)) % DELAY_CAP_MS

\* a packet was queued with a subtracted offset larger than the delay
C20_Witness ==
    /\ ev.kind = "recv" /\ ev.path = "defer" /\ ev.out # NoOut
    /\ jitter > 0 /\ JitterMinus /\ JitterOffset > delay
    /\ ev.imp.applied = UINT_WRAP_MOD_CAP - 1
    /\ minq_size(pkt_queue) >= 1

\* C21: whenever the queue is not empty, select is given a timeout that is
\* strictly positive (neither field negative, not both zero), also when the
\* head is overdue.
C21_PositiveTimeout ==
    (ev.kind = "select" /\ ~minq_empty(pkt_queue)) =>
        /\ ~ev.timeout.null
        /\ ev.timeout.tv.tv_sec >= 0
        /\ ev.timeout.tv.tv_usec >= 0
        /\ Micros(ev.timeout.tv) > 0

\* select was entered with a head whose expiration date has passed
C21_Witness ==
    /\ ev.kind = "select" /\ ~minq_empty(pkt_queue)
    /\ Micros(minq_peek(pkt_queue).ts) < Micros(last_clock)
    /\ ev.timeout.tv = [tv_sec |-> 0, tv_usec |-> 1000]

\* the latest reading of the clock
MaxClock == [tv_sec |-> MaxSec, tv_usec |-> 0]

\* the slots of the packets delayed by 500 ms whose expiration date the
\* clock passes
DueSlots ==
    { [ts |-> SlotTs(enq, LiveConfig.delay), direction |-> dir,
       size |-> dg.len, buf |-> Payload(dg.b0, dg.len),
       enq |-> enq, applied |-> LiveConfig.delay] :
         enq \in {c \in Clocks :
                     timeval_cmp(MaxClock, SlotTs(c, LiveConfig.delay))},
         dir \in {LINK_FORWARD, LINK_REVERSE},
         dg \in {d \in Datagrams : d.from = dest_addr /\ d.len >= MIN_PKT_LEN} }

\* slot s is in the queue
Queued(s) == \E i \in 0..(minq_size(pkt_queue) - 1) : pkt_queue.e[i] = s

\* slot s has just been sent from the queue
Delivered(s) ==
    ev.kind = "deliver" /\ ev.slot = s /\ ev.out.outcome = "ok"

\* C22: while the clock goes on, no fatal error occurs and sends do not fail
\* for ever, every queued packet is eventually sent, whether or not another
\* datagram is received.
C22_EventualDelivery ==
    \A s \in DueSlots : Queued(s) ~> (Delivered(s) \/ pc = "exit")

\* a queued packet was sent in an iteration that the timeout alone started
C22_Witness ==
    /\ ev.kind = "deliver" /\ ev.out.outcome = "ok" /\ ~rfds
    /\ ev.slot \in DueSlots
    /\ timeval_cmp(ev.now, ev.slot.ts)

\* the slots held by queue q and how many times slot x is among them
SlotsOf(q) == {q.e[i] : i \in 0..(minq_size(q) - 1)}
Held(q, x) == CountIn(q.e, minq_size(q), x)

\* the step puts slot x into the queue and changes nothing else in it
Enqueues(x) ==
    /\ minq_size(pkt_queue') = minq_size(pkt_queue) + 1
    /\ \A y \in SlotsOf(pkt_queue) \cup SlotsOf(pkt_queue') :
          Held(pkt_queue', y) =
             Held(pkt_queue, y) + (IF y = x THEN 1 ELSE 0)

\* the step takes slot x out of the queue and changes nothing else in it
Dequeues(x) ==
    /\ minq_size(pkt_queue') = minq_size(pkt_queue) - 1
    /\ Held(pkt_queue, x) >= 1
    /\ \A y \in SlotsOf(pkt_queue) \cup SlotsOf(pkt_queue') :
          Held(pkt_queue', y) =
             Held(pkt_queue, y) - (IF y = x THEN 1 ELSE 0)

\* C23: the queue grows by exactly the slot simulate_link defers, holding
\* the packet as it left the impairments; it shrinks by exactly the head,
\* in the step that has sent the head with its stored bytes, length and
\* direction; no other step, a failed send included, changes what it holds.
C23_Conservation ==
    [][IF ev'.kind = "recv" /\ ev'.path = "defer" /\ ev'.ret = EXIT_SUCCESS
       THEN /\ ev'.out.op = "enqueue"
            /\ Enqueues(ev'.out.slot)
            /\ ev'.out.slot.size = ev'.imp.len
            /\ ev'.out.slot.buf = SubSeq(ev'.imp.buf, 1, ev'.imp.len)
            /\ ev'.out.slot.direction = ev'.direction
       ELSE IF ev'.kind = "deliver" /\ ev'.out.outcome = "ok"
       THEN /\ ev'.slot = minq_peek(pkt_queue)
            /\ Dequeues(ev'.slot)
            /\ ev'.out.op = "send"
            /\ ev'.out.len = ev'.slot.size
            /\ ev'.out.buf = ev'.slot.buf
            /\ ev'.out.direction = ev'.slot.direction
       ELSE /\ pkt_queue' = pkt_queue
            /\ ev'.kind = "deliver" =>
                  /\ ev'.slot = minq_peek(pkt_queue)
                  /\ pc' = IF ev'.out.outcome = "transient" THEN "recv"
                           ELSE "exit"]_vars

\* the head of a queue of two different slots was sent and the other slot
\* is what the queue holds
C23_Witness ==
    /\ ev.kind = "deliver" /\ ev.out.outcome = "ok"
    /\ minq_size(pkt_queue) = 1
    /\ minq_peek(pkt_queue) # ev.slot
    /\ pkt_slot_cmp(minq_peek(pkt_queue), ev.slot)

\* the place of slot x among the three datagrams received first
FifoRank(x) ==
    IF x.size = MIN_PKT_LEN THEN 1 ELSE IF x.buf[1] = 0 THEN 2 ELSE 3

\* C24 as stated: with a constant delay a deferred packet is sent only when
\* no packet of its direction received before it is still queued, packets
\* received at the same cached clock included.
C24_FifoWithTies ==
    (ev.kind = "deliver" /\ ev.out.outcome = "ok" /\ ev.slot.enq \in FifoEnq)
        => \A y \in SlotsOf(pkt_queue) :
              (y.enq \in FifoEnq /\ y.direction = ev.slot.direction) =>
                  /\ ~timeval_cmp(ev.slot.enq, y.enq)
                  /\ FifoRank(y) > FifoRank(ev.slot)

\* C24: with a constant delay a deferred packet is sent only when no packet
\* of its direction received at an earlier cached clock is still queued.
C24_FifoDistinctClocks ==
    (ev.kind = "deliver" /\ ev.out.outcome = "ok" /\ jitter = 0) =>
        \A y \in SlotsOf(pkt_queue) :
            y.direction = ev.slot.direction =>
                ~timeval_cmp(ev.slot.enq, y.enq)

\* the first of three packets was sent; the two left were received one at
\* the same clock, one at a later clock
C24_Witness ==
    /\ ev.kind = "deliver" /\ ev.out.outcome = "ok" /\ jitter = 0
    /\ ev.slot = FifoSlot(1, NullTime)
    /\ minq_size(pkt_queue) = 2
    /\ \E y \in SlotsOf(pkt_queue) : y.enq = ev.slot.enq
    /\ \E y \in SlotsOf(pkt_queue) : timeval_cmp(y.enq, ev.slot.enq)

====
